---- MODULE Spec2Model ----
(***************************************************************************)
(* A model of the document indexing pipeline of index_documents.py:       *)
(* the three chunking strategies, the strategy selector chunk_text, the   *)
(* pipeline convert_file -> save_chunks -> save_to_database, and the      *)
(* batch loop of process_directory that runs the pipeline file by file.   *)
(*                                                                         *)
(* Strings are sequences of one-character strings, so that slicing,       *)
(* splitting and stripping are computed character by character as Python  *)
(* computes them.                                                          *)
(***************************************************************************)
EXTENDS Integers, Sequences, FiniteSets, TLC

VARIABLES
    pc,            \* position of the caller / of the pipeline run
    called,        \* which function the caller invoked ("none" before the call)
    text,          \* the text argument (pure calls) or the source file's content
    strategy,      \* the strategy argument
    chunk_size,    \* the chunk_size argument
    overlap,       \* the overlap argument
    result,        \* what the pure call returned or raised
    suffix,        \* file_path.suffix of the source file
    enable_chunking,
    enable_embedding,
    api_key,       \* TRUE: a non-empty key was passed, FALSE: None
    postgres_url,  \* TRUE: a connection string was passed, FALSE: None
    chunks,        \* convert_file's local `chunks`
    i,             \* save_chunks' loop index (1-based, as enumerate(chunks, 1))
    fs,            \* the file system: file name -> content
    embeddings_data, \* save_chunks' local list
    handed,        \* the lists handed to save_to_database during this run
    save_result,   \* what save_to_database returned ("none": not called)
    db_table,      \* the committed rows of document_chunks
    stdout,        \* the lines printed by the pipeline during this run
    events,        \* the external effects of this run, in order
    ret,           \* what convert_file returned or raised
    run,           \* number of the current run on the document
    prev,          \* save_result and ret of the previous run
    stem,          \* file_path.stem of the source file
    readable,      \* FALSE: opening or parsing the source file raises
    batch,         \* the batch loop's locals
    loop_start     \* chunk_text_fixed_size's `start`, when its loop runs step by step

vars == <<pc, called, text, strategy, chunk_size, overlap, result, suffix,
          enable_chunking, enable_embedding, api_key, postgres_url, chunks, i,
          fs, embeddings_data, handed, save_result, db_table, stdout, events,
          ret, run, prev, stem, readable, batch, loop_start>>

pureVars == <<called, result>>
pipeVars == <<suffix, enable_chunking, enable_embedding, api_key, postgres_url,
              chunks, i, fs, embeddings_data, handed, save_result, db_table,
              stdout, events, ret, run, prev>>
inputVars == <<text, strategy, chunk_size, overlap>>
batchVars == <<stem, readable, batch>>
loopVars == <<loop_start>>

----------------------------------------------------------------------------
(* Bounds of the model *)

MaxLen == 6        \* longest text of letters handed to the fixed-size chunker
MaxMixedLen == 4   \* longest text with punctuation and whitespace
MaxSize == 3       \* largest chunk_size
MaxOverlap == 2    \* largest overlap
MaxNeg == 2        \* chunk_size and overlap go down to -MaxNeg

MaxSentences == 3  \* most sentences of a text built from sentences
MaxParagraphs == 3 \* most paragraphs of a text built from paragraphs

MaxDocLen == 3     \* longest source file of a pipeline run
MaxRuns == 2       \* runs of the pipeline on the same document
MaxFiles == 3      \* most files of a directory handed to a batch
MaxCodeLen == 4    \* longest text handed to reverse_hebrew_text
EmbedDim == 2      \* dimension of the provider's vectors

\* the defaults of chunk_text and chunk_text_fixed_size
DefaultChunkSize == 1000
DefaultOverlap == 200

Letters == {"a", "b"}
Alphabet == Letters \cup {".", " ", "\n"}

SeqsUpTo(S, n) == UNION {[1..k -> S] : k \in 0..n}

LetterTexts == SeqsUpTo(Letters, MaxLen)
MixedTexts == SeqsUpTo(Alphabet, MaxMixedLen)
Sizes == (0 - MaxNeg)..MaxSize
Overlaps == (0 - MaxNeg)..MaxOverlap
\* a valid, an invalid, a negative and the default configuration
SampleConfigs == {<<MaxSize, 0>>, <<0, MaxOverlap>>, <<0 - MaxNeg, 0>>,
                  <<DefaultChunkSize, DefaultOverlap>>}

\* texts built from sentences: a body, a terminal mark, whitespace between
Terminators == {".", "!", "?"}
SentenceBodies == {<<"a">>, <<"a", " ", "b">>, <<"a", "\n", " ", "b">>}
Sentences == {b \o <<t>> : b \in SentenceBodies, t \in Terminators}
Separators == {<<" ">>, <<"\n">>}
RECURSIVE SentenceTextsOf(_)
SentenceTextsOf(k) ==
    IF k = 0 THEN {<<>>}
    ELSE IF k = 1 THEN Sentences
    ELSE {t \o sep \o st : t \in SentenceTextsOf(k - 1), sep \in Separators,
                           st \in Sentences}
SentenceTexts == UNION {SentenceTextsOf(k) : k \in 0..MaxSentences}

\* texts built from paragraphs joined by a blank line
Paragraphs == {<<"a">>, <<"b", ".">>, <<"a", "\n", "b">>}
RECURSIVE ParagraphTextsOf(_)
ParagraphTextsOf(k) ==
    IF k = 0 THEN {<<>>}
    ELSE IF k = 1 THEN Paragraphs
    ELSE {t \o <<"\n", "\n">> \o pt : t \in ParagraphTextsOf(k - 1), pt \in Paragraphs}
ParagraphTexts == UNION {ParagraphTextsOf(k) : k \in 0..MaxParagraphs}

DocAlphabet == {"a", "b", "\n"}
DocTexts == SeqsUpTo(DocAlphabet, MaxDocLen)
\* a stride of one, an overlapping and an invalid configuration
PipeConfigs == {<<1, 0>>, <<2, 1>>, <<1, 1>>}
Suffixes == {".txt", ".csv"}
KnownStrategies == {"fixed", "sentence", "paragraph"}
StrategyNames == KnownStrategies \cup {"semantic", "Fixed"}

----------------------------------------------------------------------------
(* Python string primitives *)

Min(a, b) == IF a < b THEN a ELSE b
Max(a, b) == IF a > b THEN a ELSE b

\* str.isspace for the characters of the model
IsSpace(c) == c \in {" ", "\n", "\t"}

\* Python's index normalisation of a slice bound
ClampIndex(k, n) == IF k < 0 THEN Max(k + n, 0) ELSE Min(k, n)

\* s[a:b], 0-based, with negative and out-of-range bounds as Python treats them
PySlice(s, a, b) ==
    LET lo == ClampIndex(a, Len(s))
        hi == ClampIndex(b, Len(s))
    IN  IF lo >= hi THEN <<>> ELSE SubSeq(s, lo + 1, hi)

\* s[a:]
PySliceFrom(s, a) == PySlice(s, a, Len(s))

RECURSIVE LStrip(_)
LStrip(s) == IF s # <<>> /\ IsSpace(Head(s)) THEN LStrip(Tail(s)) ELSE s

RECURSIVE RStrip(_)
RStrip(s) ==
    IF s # <<>> /\ IsSpace(s[Len(s)]) THEN RStrip(SubSeq(s, 1, Len(s) - 1)) ELSE s

\* str.strip()
Strip(s) == RStrip(LStrip(s))

\* s.startswith(p, at) with a 0-based offset
StartsWithAt(s, p, at) ==
    /\ at + Len(p) <= Len(s)
    /\ \A k \in 1..Len(p) : s[at + k] = p[k]

\* str.split(sep): the pieces between the leftmost non-overlapping occurrences
RECURSIVE SplitFrom(_, _, _, _)
SplitFrom(s, sep, at, from) ==
    IF at + Len(sep) > Len(s) THEN <<SubSeq(s, from + 1, Len(s))>>
    ELSE IF StartsWithAt(s, sep, at)
         THEN <<SubSeq(s, from + 1, at)>>
                  \o SplitFrom(s, sep, at + Len(sep), at + Len(sep))
         ELSE SplitFrom(s, sep, at + 1, from)

Split(s, sep) == SplitFrom(s, sep, 0, 0)

\* sep.join(xs)
RECURSIVE Join(_, _)
Join(xs, sep) ==
    IF xs = <<>> THEN <<>>
    ELSE IF Len(xs) = 1 THEN xs[1]
    ELSE xs[1] \o sep \o Join(Tail(xs), sep)

\* str.replace(old, new): every leftmost non-overlapping occurrence
Replace(s, old, new) == Join(Split(s, old), new)

\* [f(x) for x in xs] with f = str.strip: nothing is filtered out
StripAll(xs) == [k \in DOMAIN xs |-> Strip(xs[k])]

\* [f(x) for x in xs if f(x)] with f = str.strip
RECURSIVE StripNonEmpty(_)
StripNonEmpty(xs) ==
    IF xs = <<>> THEN <<>>
    ELSE LET h == Strip(Head(xs))
         IN  (IF h # <<>> THEN <<h>> ELSE <<>>) \o StripNonEmpty(Tail(xs))

----------------------------------------------------------------------------
(* What a call gives back: the returned list, or the exception raised *)

Returned(cs) == [status |-> "returned", exc |-> "", msg |-> "", chunks |-> cs]
Raised(e, m) == [status |-> "raised", exc |-> e, msg |-> m, chunks |-> <<>>]
NoResult == [status |-> "none", exc |-> "", msg |-> "", chunks |-> <<>>]

----------------------------------------------------------------------------
(* chunk_text_fixed_size *)

\* the guard of line 51
InvalidConfig(cs, ov) == cs <= ov

\* the break condition of line 63
ReachedEndStrict(end, n) == end > n
ReachedEnd(end, n) == end >= n

\* the cursor update of line 66
NextStartOffByOne(end, ov) == end - ov + 1
NextStart(end, ov) == end - ov

\* the loop condition of line 58
LoopGuardInclusive(start, n) == start <= n
LoopGuard(start, n) == start < n

\* the while loop of lines 58-66, from cursor `start` with `acc` already emitted
RECURSIVE FixedLoop(_, _, _, _, _)
FixedLoop(s, cs, ov, start, acc) ==
    IF LoopGuard(start, Len(s))
    THEN LET end == start + cs
             acc2 == Append(acc, PySlice(s, start, end))
         IN  IF ReachedEnd(end, Len(s)) THEN acc2
             ELSE FixedLoop(s, cs, ov, NextStart(end, ov), acc2)
    ELSE acc

\* a version whose validation sits inside the loop: an empty text skips it
ChunkTextFixedSizeLateCheck(s, cs, ov) ==
    IF Len(s) > 0 /\ InvalidConfig(cs, ov)
    THEN Raised("ValueError", "chunk_size must be greater than overlap")
    ELSE IF Len(s) = 0 THEN Returned(<<>>)
    ELSE Returned(FixedLoop(s, cs, ov, 0, <<>>))

ChunkTextFixedSize(s, cs, ov) ==
    IF InvalidConfig(cs, ov)
    THEN Raised("ValueError", "chunk_size must be greater than overlap")
    ELSE Returned(FixedLoop(s, cs, ov, 0, <<>>))

----------------------------------------------------------------------------
(* chunk_text_by_sentences *)

\* the lookbehind class [.!?\n] of the pattern
SentenceEndNoNewline == {".", "!", "?"}
SentenceEnd == {".", "!", "?", "\n"}

\* end (0-based, exclusive) of the whitespace run that starts at 0-based `at`
RECURSIVE SpaceRunEnd(_, _)
SpaceRunEnd(s, at) ==
    IF at < Len(s) /\ IsSpace(s[at + 1]) THEN SpaceRunEnd(s, at + 1) ELSE at

\* a split that consumes the delimiter with the whitespace after it
RECURSIVE SplitDroppingDelimiter(_, _, _)
SplitDroppingDelimiter(s, at, from) ==
    IF at >= Len(s) THEN <<SubSeq(s, from + 1, Len(s))>>
    ELSE IF at >= 1 /\ s[at] \in SentenceEnd /\ IsSpace(s[at + 1])
         THEN LET e == SpaceRunEnd(s, at)
              IN  <<SubSeq(s, from + 1, at - 1)>> \o SplitDroppingDelimiter(s, e, e)
         ELSE SplitDroppingDelimiter(s, at + 1, from)

\* a split at every run of whitespace, whatever precedes it
RECURSIVE SplitOnWhitespaceFrom(_, _, _)
SplitOnWhitespaceFrom(s, at, from) ==
    IF at >= Len(s) THEN <<SubSeq(s, from + 1, Len(s))>>
    ELSE IF at >= 1 /\ IsSpace(s[at + 1])
         THEN LET e == SpaceRunEnd(s, at)
              IN  <<SubSeq(s, from + 1, at)>> \o SplitOnWhitespaceFrom(s, e, e)
         ELSE SplitOnWhitespaceFrom(s, at + 1, from)

\* re.split(r'(?<=[.!?\n])\s+', s): scan for the next match at or after `at`
RECURSIVE SentenceSplitFrom(_, _, _)
SentenceSplitFrom(s, at, from) ==
    IF at >= Len(s) THEN <<SubSeq(s, from + 1, Len(s))>>
    ELSE IF at >= 1 /\ s[at] \in SentenceEnd /\ IsSpace(s[at + 1])
         THEN LET e == SpaceRunEnd(s, at)
              IN  <<SubSeq(s, from + 1, at)>> \o SentenceSplitFrom(s, e, e)
         ELSE SentenceSplitFrom(s, at + 1, from)

ChunkTextBySentences(s) == Returned(StripNonEmpty(SentenceSplitFrom(s, 0, 0)))

----------------------------------------------------------------------------
(* chunk_text_by_paragraphs *)

\* a version that takes every line for a paragraph
ChunkTextByLines(s) == Returned(StripNonEmpty(Split(s, <<"\n">>)))

ChunkTextByParagraphs(s) == Returned(StripNonEmpty(Split(s, <<"\n", "\n">>)))

----------------------------------------------------------------------------
(* chunk_text: the strategy selector *)

\* a selector that validates the sizes before it looks at the strategy
ChunkTextValidatesFirst(s, strat, cs, ov) ==
    IF InvalidConfig(cs, ov)
    THEN Raised("ValueError", "chunk_size must be greater than overlap")
    ELSE IF strat = "fixed" THEN ChunkTextFixedSize(s, cs, ov)
    ELSE IF strat = "sentence" THEN ChunkTextBySentences(s)
    ELSE IF strat = "paragraph" THEN ChunkTextByParagraphs(s)
    ELSE Raised("ValueError", "Unknown chunking strategy")

\* a selector that falls back to the default strategy for an unknown name
ChunkTextFallback(s, strat, cs, ov) ==
    IF strat = "sentence" THEN ChunkTextBySentences(s)
    ELSE IF strat = "paragraph" THEN ChunkTextByParagraphs(s)
    ELSE ChunkTextFixedSize(s, cs, ov)

ChunkText(s, strat, cs, ov) ==
    IF strat = "fixed" THEN ChunkTextFixedSize(s, cs, ov)
    ELSE IF strat = "sentence" THEN ChunkTextBySentences(s)
    ELSE IF strat = "paragraph" THEN ChunkTextByParagraphs(s)
    ELSE Raised("ValueError", "Unknown chunking strategy")

----------------------------------------------------------------------------
(* The conversion step: format_text_to_markdown and the wrapper removal *)

OpenTag == <<"<", "d", "i", "v", " ", "d", "i", "r", "=", "\"", "r", "t", "l", "\"", ">">>
CloseTag == <<"<", "/", "d", "i", "v", ">">>

\* the loop over the lines: a non-blank line is stripped, a blank one kept as "\n"
RECURSIVE FormatLines(_)
FormatLines(lines) ==
    IF lines = <<>> THEN <<>>
    ELSE (IF Strip(Head(lines)) # <<>> THEN Strip(Head(lines)) \o <<"\n">>
          ELSE <<"\n">>) \o FormatLines(Tail(lines))

FormatTextToMarkdown(s) ==
    OpenTag \o <<"\n", "\n">> \o FormatLines(Split(s, <<"\n">>))
        \o <<"\n">> \o CloseTag

\* convert_docx_to_markdown, lines 190-196: the non-blank paragraphs joined by
\* "\n". The text of a .docx source is its paragraphs, one per line.
DocxText(s) ==
    Join(SelectSeq(Split(s, <<"\n">>), LAMBDA para : Strip(para) # <<>>), <<"\n">>)

\* what the converter of the suffix writes to output_path
MarkdownOf(sx, s) ==
    IF sx = ".docx" THEN FormatTextToMarkdown(DocxText(s)) ELSE FormatTextToMarkdown(s)

\* content.replace('<div dir="rtl">', '').replace('</div>', '').strip()
RemoveWrapper(content) == Strip(Replace(Replace(content, OpenTag, <<>>), CloseTag, <<>>))

SupportedSuffixes == {".pdf", ".txt", ".docx"}

\* source files whose own text holds one of the two tags
TaggedTexts == {<<"a">> \o CloseTag, OpenTag \o <<"b">>, <<"a">> \o CloseTag \o <<"\n", "b">>}

----------------------------------------------------------------------------
(* The files of one document: output_path, and the chunk folder named     *)
(* after its stem                                                          *)

OutputFile == <<stem, ".md", 0>>
ChunksFolder == <<stem, "", 0>>
ChunkFile(k) == <<stem, "chunk.md", k>>
EmbeddingsFile == <<stem, "embeddings.json", 0>>

\* open(path, "w") and write: creates or replaces the file
WriteFile(files, name, content) ==
    [n \in DOMAIN files \cup {name} |-> IF n = name THEN content ELSE files[n]]

\* os.remove(path)
RemoveFile(files, name) == [n \in DOMAIN files \ {name} |-> files[n]]

----------------------------------------------------------------------------
(* Values of the pipeline *)

\* an embedding: None, or the vector the provider returned
None == [present |-> FALSE, vec |-> <<>>]
Vector(v) == [present |-> TRUE, vec |-> v]
\* the truth value Python gives `if embedding:`
Truthy(e) == e.present /\ e.vec # <<>>

\* the provider's vector for a text
ProviderVector(s) == [k \in 1..EmbedDim |-> Len(s)]

\* the preview of line 311
PreviewLen == 200
Preview(c) ==
    IF Len(c) > PreviewLen THEN PySlice(c, 0, PreviewLen) \o <<".", ".", ".">> ELSE c

StrategyName(strat) ==
    IF strat = "fixed" THEN "fixed-size"
    ELSE IF strat = "sentence" THEN "sentence-based" ELSE "paragraph-based"

\* the result string of convert_file, by its parts
ResultText(n, strat, folder, emb) ==
    [converted |-> "Converted", n_chunks |-> n, strategy_name |-> strat,
     folder |-> folder, with_embeddings |-> emb]
NoResultText == [converted |-> "", n_chunks |-> 0 - 1, strategy_name |-> "",
                 folder |-> "", with_embeddings |-> FALSE]

ConvertReturned(r, folder) ==
    [status |-> "returned", exc |-> "", result |-> r, chunks_folder |-> folder]
ConvertRaised(e) ==
    [status |-> "raised", exc |-> e, result |-> NoResultText, chunks_folder |-> "None"]

NoReturn == [status |-> "none", exc |-> "", result |-> NoResultText, chunks_folder |-> "None"]
NoPrev == [save_result |-> "none", ret |-> NoReturn]

Event(op, k, ok) == [op |-> op, i |-> k, ok |-> ok]

\* the rows built last entry first
RECURSIVE DbChunksDataReversed(_, _, _, _)
DbChunksDataReversed(data, cs, strat, now) ==
    IF data = <<>> THEN <<>>
    ELSE DbChunksDataReversed(Tail(data), cs, strat, now)
         \o <<[chunk_text |-> cs[Head(data).chunk_id],
               embedding |-> Head(data).embedding,
               filename |-> stem,
               split_strategy |-> strat,
               created_at |-> now]>>

\* db_chunks_data of lines 326-334: one row per entry of embeddings_data
RECURSIVE DbChunksData(_, _, _, _)
DbChunksData(data, cs, strat, now) ==
    IF data = <<>> THEN <<>>
    ELSE <<[chunk_text |-> cs[Head(data).chunk_id],
            embedding |-> Head(data).embedding,
            filename |-> stem,
            split_strategy |-> strat,
            created_at |-> now]>> \o DbChunksData(Tail(data), cs, strat, now)

\* where the loop of save_chunks goes after the body for chunk k of n
LoopLeavesAfterFirst(ok, k, n) == IF k >= n \/ k >= 1 THEN "after_loop" ELSE "write"
LoopBreaksOnFailure(ok, k, n) == IF k >= n \/ ~ok THEN "after_loop" ELSE "write"
LoopContinue(ok, k, n) == IF k >= n THEN "after_loop" ELSE "write"

----------------------------------------------------------------------------
(* The pipeline's variables before any run *)

NoFiles == [n \in {} |-> <<>>]

\* the locals of the batch loop when no batch runs
NoBatch == [directory |-> <<>>, all_files |-> <<>>, idx |-> 0, success_count |-> 0,
            reports |-> <<>>, chunks_folders |-> <<>>, summary |-> <<>>]

PipeIdle ==
    /\ suffix = ".txt"
    /\ enable_chunking = FALSE
    /\ enable_embedding = FALSE
    /\ api_key = FALSE
    /\ postgres_url = FALSE
    /\ chunks = <<>>
    /\ i = 0
    /\ fs = NoFiles
    /\ embeddings_data = <<>>
    /\ handed = <<>>
    /\ save_result = "none"
    /\ db_table = <<>>
    /\ stdout = <<>>
    /\ events = <<>>
    /\ ret = NoReturn
    /\ run = 0
    /\ prev = NoPrev
    /\ stem = "doc"
    /\ readable = TRUE
    /\ batch = NoBatch
    /\ loop_start = 0


----------------------------------------------------------------------------
(* Calls of the chunking functions: the arguments are drawn in Init, one   *)
(* action per function a caller can invoke.                                *)

Init ==
    /\ pc = "ready"
    /\ called = "none"
    /\ result = NoResult
    /\ \/ /\ strategy = "fixed"
          /\ text \in LetterTexts
          /\ chunk_size \in Sizes
          /\ overlap \in Overlaps
       \/ /\ strategy \in StrategyNames
          /\ text \in MixedTexts
          /\ \E cfg \in SampleConfigs :
                /\ chunk_size = cfg[1]
                /\ overlap = cfg[2]
       \/ /\ \/ strategy = "sentence" /\ text \in SentenceTexts
             \/ strategy = "paragraph" /\ text \in ParagraphTexts
          /\ chunk_size = DefaultChunkSize
          /\ overlap = DefaultOverlap
    /\ PipeIdle

CallChunkText ==
    /\ pc = "ready"
    /\ pc' = "returned"
    /\ called' = "chunk_text"
    /\ result' = ChunkText(text, strategy, chunk_size, overlap)
    /\ UNCHANGED <<inputVars, pipeVars, batchVars, loopVars>>

CallChunkTextFixedSize ==
    /\ pc = "ready"
    /\ pc' = "returned"
    /\ called' = "chunk_text_fixed_size"
    /\ result' = ChunkTextFixedSize(text, chunk_size, overlap)
    /\ UNCHANGED <<inputVars, pipeVars, batchVars, loopVars>>

CallChunkTextBySentences ==
    /\ pc = "ready"
    /\ pc' = "returned"
    /\ called' = "chunk_text_by_sentences"
    /\ result' = ChunkTextBySentences(text)
    /\ UNCHANGED <<inputVars, pipeVars, batchVars, loopVars>>

CallChunkTextByParagraphs ==
    /\ pc = "ready"
    /\ pc' = "returned"
    /\ called' = "chunk_text_by_paragraphs"
    /\ result' = ChunkTextByParagraphs(text)
    /\ UNCHANGED <<inputVars, pipeVars, batchVars, loopVars>>

Next ==
    \/ CallChunkText
    \/ CallChunkTextFixedSize
    \/ CallChunkTextBySentences
    \/ CallChunkTextByParagraphs

Spec == Init /\ [][Next]_vars

----------------------------------------------------------------------------
(* Properties of the chunking functions *)

\* the call that returned went to the fixed-size chunker
FixedCallReturned ==
    /\ pc = "returned"
    /\ \/ called = "chunk_text_fixed_size"
       \/ called = "chunk_text" /\ strategy = "fixed"

\* the last n characters and the first n characters of a chunk
LastN(c, n) == SubSeq(c, Max(1, Len(c) - n + 1), Len(c))
FirstN(c, n) == SubSeq(c, 1, Min(n, Len(c)))

\* c[1] + c[2][ov:] + ... + c[n][ov:]
RECURSIVE Reconstruct(_, _)
Reconstruct(cs, ov) ==
    IF cs = <<>> THEN <<>>
    ELSE IF Len(cs) = 1 THEN cs[1]
    ELSE Reconstruct(SubSeq(cs, 1, Len(cs) - 1), ov) \o PySliceFrom(cs[Len(cs)], ov)

\* ceil(a / b) for b > 0
CeilDiv(a, b) == (a + b - 1) \div b

\* C1: a fixed-size call with chunk_size <= overlap raises ValueError for every
\* text and hands back no chunk list, not even a partial one.
C1_InvalidConfigRejected ==
    (FixedCallReturned /\ chunk_size <= overlap)
        => /\ result.status = "raised"
           /\ result.exc = "ValueError"
           /\ result.chunks = <<>>

C1_Witness ==
    /\ FixedCallReturned
    /\ called = "chunk_text"
    /\ chunk_size = overlap
    /\ text = <<>>
    /\ result.status = "raised"

\* C2: with chunk_size > overlap >= 0, for every pair of consecutive chunks
\* other than the final pair, the last `overlap` characters of the first are
\* the first `overlap` characters of the second.
C2_OverlapProperty ==
    (FixedCallReturned /\ chunk_size > overlap /\ overlap >= 0)
        => \A k \in 1..(Len(result.chunks) - 2) :
              /\ Len(result.chunks[k]) >= overlap
              /\ Len(result.chunks[k + 1]) >= overlap
              /\ LastN(result.chunks[k], overlap)
                     = FirstN(result.chunks[k + 1], overlap)

C2_Witness ==
    /\ FixedCallReturned
    /\ overlap = 2
    /\ Len(result.chunks) >= 4
    /\ result.chunks[1] # result.chunks[2]

\* C3: with chunk_size > overlap >= 0, the first chunk followed by every later
\* chunk from offset `overlap` onward is exactly the original text.
C3_Reconstruction ==
    (FixedCallReturned /\ chunk_size > overlap /\ overlap >= 0)
        => /\ result.status = "returned"
           /\ Reconstruct(result.chunks, overlap) = text

C3_Witness ==
    /\ FixedCallReturned
    /\ overlap = 1
    /\ Len(result.chunks) >= 3
    /\ Len(text) = 5
    /\ Reconstruct(result.chunks, overlap) = text

\* C4: with chunk_size > overlap >= 0 and a text of length L, the number of
\* chunks is ceil((L - overlap) / (chunk_size - overlap)) when L > overlap,
\* and 1 when 0 < L <= chunk_size.
C4_CountBound ==
    (FixedCallReturned /\ chunk_size > overlap /\ overlap >= 0)
        => /\ Len(text) > overlap
              => Len(result.chunks)
                     = CeilDiv(Len(text) - overlap, chunk_size - overlap)
           /\ (0 < Len(text) /\ Len(text) <= chunk_size)
              => Len(result.chunks) = 1

C4_Witness ==
    /\ FixedCallReturned
    /\ chunk_size = 3
    /\ overlap = 1
    /\ Len(text) = 5
    /\ Len(result.chunks) = 2

\* C6: chunk_text raises ValueError for every strategy name other than
\* 'fixed', 'sentence' and 'paragraph', whatever the text and the sizes, and
\* returns no chunks for it.
C6_UnknownStrategyRejected ==
    (pc = "returned" /\ called = "chunk_text" /\ strategy \notin KnownStrategies)
        => /\ result.status = "raised"
           /\ result.exc = "ValueError"
           /\ result.chunks = <<>>

C6_Witness ==
    /\ pc = "returned"
    /\ called = "chunk_text"
    /\ strategy = "semantic"
    /\ chunk_size > overlap
    /\ text # <<>>
    /\ result.status = "raised"

\* C7: every fixed-size call whose chunk_size is zero or negative raises a
\* configuration error, whatever the overlap, and returns no chunks.
C7_NonPositiveSizeRejected ==
    (FixedCallReturned /\ chunk_size <= 0)
        => /\ result.status = "raised"
           /\ result.chunks = <<>>

\* C15: with chunk_size > overlap >= 0 the fixed-size chunker emits no empty
\* chunk: an empty text gives no chunk, a text as long as chunk_size gives
\* one, and no empty chunk trails a text whose length is a multiple of the
\* stride.
C15_NoEmptyFixedChunk ==
    (FixedCallReturned /\ chunk_size > overlap /\ overlap >= 0)
        => /\ result.status = "returned"
           /\ \A k \in 1..Len(result.chunks) : result.chunks[k] # <<>>
           /\ text = <<>> => result.chunks = <<>>
           /\ Len(text) = chunk_size => result.chunks = <<text>>

\* a text of twice the stride, and of twice the chunk size
C15_Witness ==
    /\ FixedCallReturned
    /\ chunk_size = 2
    /\ overlap = 0
    /\ Len(text) = 4
    /\ Len(result.chunks) = 2
    /\ result.chunks[2] = SubSeq(text, 3, 4)

\* C24: with chunk_size > overlap >= 0 every fixed-size chunk but the last is
\* exactly chunk_size long and every chunk after the first, the last one
\* included, is longer than overlap: each chunk adds a character to its
\* predecessor, and the final pair too has the overlap property in full.
C24_ChunkLengths ==
    (FixedCallReturned /\ chunk_size > overlap /\ overlap >= 0)
        => LET cs == result.chunks
               n == Len(cs)
           IN  /\ result.status = "returned"
               /\ \A k \in 1..(n - 1) : Len(cs[k]) = chunk_size
               /\ \A k \in 2..n : Len(cs[k]) > overlap
               /\ \A k \in 1..n : Len(cs[k]) <= chunk_size
               /\ \A k \in 1..(n - 1) :
                     SubSeq(cs[k], chunk_size - overlap + 1, chunk_size)
                        = SubSeq(cs[k + 1], 1, overlap)

\* a last chunk shorter than chunk_size and longer than overlap
C24_Witness ==
    /\ FixedCallReturned
    /\ chunk_size = 3
    /\ overlap = 1
    /\ Len(text) = 6
    /\ Len(result.chunks) = 3
    /\ Len(result.chunks[3]) = 2
    /\ result.chunks[1] # result.chunks[2]

----------------------------------------------------------------------------
(* Properties of the sentence and paragraph chunkers *)

\* the call that returned went to the sentence chunker
SentenceCallReturned ==
    /\ pc = "returned"
    /\ \/ called = "chunk_text_by_sentences"
       \/ called = "chunk_text" /\ strategy = "sentence"

\* the call that returned went to the paragraph chunker
ParagraphCallReturned ==
    /\ pc = "returned"
    /\ \/ called = "chunk_text_by_paragraphs"
       \/ called = "chunk_text" /\ strategy = "paragraph"

\* the characters after which whitespace is a sentence boundary
Delimiters == {".", "!", "?", "\n"}
Punctuation == {".", "!", "?"}

\* the positions (1-based) of s that a sentence boundary removes: whitespace
\* reached from a delimiter through whitespace only
BoundaryPositions(s) ==
    {p \in 1..Len(s) :
        /\ IsSpace(s[p])
        /\ \E q \in 1..(p - 1) :
              /\ s[q] \in Delimiters
              /\ \A r \in (q + 1)..p : IsSpace(s[r])}

\* the maximal runs of positions of s outside M, in order; `cur` is the run
\* that position p would extend
RECURSIVE UnmarkedRuns(_, _, _, _)
UnmarkedRuns(s, M, p, cur) ==
    LET done == IF cur = <<>> THEN <<>> ELSE <<cur>>
    IN  IF p > Len(s) THEN done
        ELSE IF p \in M THEN done \o UnmarkedRuns(s, M, p + 1, <<>>)
        ELSE UnmarkedRuns(s, M, p + 1, Append(cur, s[p]))

\* the pieces of s between the removed positions M
Pieces(s, M) == UnmarkedRuns(s, M, 1, <<>>)

\* the pieces trimmed, those that are blank left out
TrimmedNonBlank(xs) ==
    SelectSeq([k \in DOMAIN xs |-> Strip(xs[k])], LAMBDA x : x # <<>>)

SentencePieces(s) == Pieces(s, BoundaryPositions(s))

\* piece j of the sentence split is followed by a boundary
EndsAtBoundary(s, j) ==
    j < Len(SentencePieces(s)) \/ (Len(s) > 0 /\ Len(s) \in BoundaryPositions(s))

\* the chunk that piece j became: blank pieces before it gave no chunk
ChunkIndexOf(xs, j) == Cardinality({k \in 1..j : Strip(xs[k]) # <<>>})

BlankLinePositions(s) ==
    {p \in 1..Len(s) :
        /\ s[p] = "\n"
        /\ \/ p > 1 /\ s[p - 1] = "\n"
           \/ p < Len(s) /\ s[p + 1] = "\n"}

ParagraphPieces(s) == Pieces(s, BlankLinePositions(s))

\* the number of places where s holds "\n\n"
BlankLineCount(s) ==
    Cardinality({p \in 1..(Len(s) - 1) : s[p] = "\n" /\ s[p + 1] = "\n"})

\* s is non-blank paragraphs joined by "\n\n": no paragraph is blank, and no
\* paragraph starts or ends with the newline that would lengthen a separator
JoinedParagraphs(s) ==
    /\ s # <<>>
    /\ Len(ParagraphPieces(s)) = BlankLineCount(s) + 1
    /\ \A j \in 1..Len(ParagraphPieces(s)) : Strip(ParagraphPieces(s)[j]) # <<>>

\* C12: the paragraph chunker splits the text at every occurrence of "\n\n"
\* and nowhere else and returns the trimmed non-empty segments in order; for
\* k non-blank paragraphs joined by "\n\n" it returns exactly those k
\* paragraphs.
C12_ParagraphBoundaries ==
    (ParagraphCallReturned /\ result.status = "returned")
        => LET ps == ParagraphPieces(text)
           IN  /\ result.chunks = TrimmedNonBlank(ps)
               /\ JoinedParagraphs(text)
                    => /\ Len(result.chunks) = BlankLineCount(text) + 1
                       /\ \A j \in 1..Len(ps) : result.chunks[j] = Strip(ps[j])

\* three paragraphs, one of them with a single newline inside
C12_Witness ==
    /\ ParagraphCallReturned
    /\ text = <<"a", "\n", "\n", "b", ".", "\n", "\n", "a", "\n", "b">>
    /\ JoinedParagraphs(text)
    /\ result.chunks = <<<<"a">>, <<"b", ".">>, <<"a", "\n", "b">>>>

\* the whitespace (1-based positions) that follows a terminal mark of s
TerminalBoundaryPositions(s) ==
    {p \in 1..Len(s) :
        /\ IsSpace(s[p])
        /\ \E q \in 1..(p - 1) :
              /\ s[q] \in Punctuation
              /\ \A r \in (q + 1)..p : IsSpace(s[r])}

\* the sentences of s: what lies between the whitespace after terminal marks
SentencesOf(s) == Pieces(s, TerminalBoundaryPositions(s))

\* s is sentences, each ending in '.', '!' or '?', with whitespace between
MadeOfSentences(s) ==
    /\ s # <<>>
    /\ ~IsSpace(s[1])
    /\ s[Len(s)] \in Punctuation

\* no sentence of s holds a newline that is followed by whitespace
NoLineBreakInside(s) ==
    \A q \in 1..(Len(s) - 1) :
        (s[q] = "\n" /\ IsSpace(s[q + 1])) => q \in TerminalBoundaryPositions(s)

\* C13 as stated: for a text of k sentences, each ending in '.', '!' or '?'
\* and separated from the next by whitespace, the sentence chunker gives k
\* chunks, the i-th being the i-th sentence.
C13_Original ==
    (SentenceCallReturned /\ MadeOfSentences(text))
        => /\ result.status = "returned"
           /\ result.chunks = SentencesOf(text)

\* C13, amended: for a text of k sentences, each ending in '.', '!' or '?'
\* and separated from the next by whitespace, where no sentence holds a
\* newline followed by whitespace, the sentence chunker, called directly or
\* through chunk_text, gives k chunks, the i-th being the i-th sentence and
\* ending with its terminal mark.
C13_SentencesReturned ==
    (SentenceCallReturned /\ MadeOfSentences(text) /\ NoLineBreakInside(text))
        => /\ result.status = "returned"
           /\ result.chunks = SentencesOf(text)
           /\ \A j \in 1..Len(result.chunks) :
                 result.chunks[j][Len(result.chunks[j])] \in Punctuation

\* three sentences with the three marks, through chunk_text
C13_Witness ==
    /\ pc = "returned"
    /\ called = "chunk_text"
    /\ strategy = "sentence"
    /\ text = <<"a", " ", "b", ".", "\n", "a", "!", " ", "a", "?">>
    /\ MadeOfSentences(text) /\ NoLineBreakInside(text)
    /\ result.chunks = <<<<"a", " ", "b", ".">>, <<"a", "!">>, <<"a", "?">>>>

\* every character of s is whitespace (an empty s included)
AllSpace(s) == \A p \in 1..Len(s) : IsSpace(s[p])

\* C14: no chunk of the sentence chunker or of the paragraph chunker is empty
\* or whitespace-only, none starts or ends with whitespace, and a text that
\* is empty or all whitespace gives no chunk.
C14_ChunksTrimmedNonEmpty ==
    (SentenceCallReturned \/ ParagraphCallReturned)
        => /\ result.status = "returned"
           /\ \A k \in 1..Len(result.chunks) :
                 LET c == result.chunks[k]
                 IN  /\ c # <<>>
                     /\ ~AllSpace(c)
                     /\ ~IsSpace(c[1])
                     /\ ~IsSpace(c[Len(c)])
           /\ AllSpace(text) => result.chunks = <<>>

\* a text with whitespace at both ends: the piece after the last boundary is
\* empty and dropped, the first is trimmed
C14_Witness ==
    /\ SentenceCallReturned
    /\ text = <<" ", "a", ".", " ">>
    /\ result.chunks = <<<<"a", ".">>>>

\* C18: for the strategies 'sentence' and 'paragraph' chunk_text ignores
\* chunk_size and overlap: the chunks are fixed by the text and the strategy
\* alone, also when chunk_size <= overlap or a value is not positive, and no
\* configuration error is raised.
C18_SizesIgnored ==
    (pc = "returned" /\ called = "chunk_text" /\ strategy \in {"sentence", "paragraph"})
        => /\ result.status = "returned"
           /\ result.chunks =
                 IF strategy = "sentence"
                 THEN TrimmedNonBlank(SentencePieces(text))
                 ELSE TrimmedNonBlank(ParagraphPieces(text))

\* a paragraph call with chunk_size below overlap
C18_Witness ==
    /\ pc = "returned"
    /\ called = "chunk_text"
    /\ strategy = "paragraph"
    /\ chunk_size <= 0
    /\ chunk_size < overlap
    /\ result.chunks = <<<<"a">>, <<"b">>>>

\* first position at or after 0-based `at` of s that holds no whitespace
RECURSIVE SkipSpace(_, _)
SkipSpace(s, at) ==
    IF at < Len(s) /\ IsSpace(s[at + 1]) THEN SkipSpace(s, at + 1) ELSE at

\* from 0-based `at` on, s is the chunks cs in order, each a substring at its
\* place, with nothing but whitespace before, between and after them
RECURSIVE CoveredBy(_, _, _)
CoveredBy(s, cs, at) ==
    LET p == SkipSpace(s, at)
    IN  IF cs = <<>> THEN p = Len(s)
        ELSE /\ p + Len(Head(cs)) <= Len(s)
             /\ SubSeq(s, p + 1, p + Len(Head(cs))) = Head(cs)
             /\ CoveredBy(s, Tail(cs), p + Len(Head(cs)))

\* C19: the chunks of the sentence and paragraph strategies are, in order,
\* non-overlapping substrings of the text, and every character of the text
\* outside them is whitespace: no other character is lost or moved.
C19_ChunksCoverText ==
    (SentenceCallReturned \/ ParagraphCallReturned)
        => /\ result.status = "returned"
           /\ CoveredBy(text, result.chunks, 0)

\* three sentences with whitespace of both kinds between and inside them
C19_Witness ==
    /\ SentenceCallReturned
    /\ text = <<"a", "\n", " ", "b", ".", "\n", "a", " ", "b", "!", " ", "a", "?">>
    /\ Len(result.chunks) = 4
    /\ CoveredBy(text, result.chunks, 0)

----------------------------------------------------------------------------
(* One run of convert_file on a .txt document, step by step *)

PipeInit ==
    /\ pc = "start"
    /\ called = "none"
    /\ result = NoResult
    /\ text \in DocTexts \cup TaggedTexts
    /\ strategy \in StrategyNames
    /\ \E cfg \in PipeConfigs :
          /\ chunk_size = cfg[1]
          /\ overlap = cfg[2]
    /\ suffix \in Suffixes
    /\ enable_chunking \in BOOLEAN
    /\ enable_embedding \in BOOLEAN
    /\ api_key \in BOOLEAN
    /\ postgres_url \in BOOLEAN
    /\ chunks = <<>>
    /\ i = 0
    /\ fs = NoFiles
    /\ embeddings_data = <<>>
    /\ handed = <<>>
    /\ save_result = "none"
    /\ db_table = <<>>
    /\ stdout = <<>>
    /\ events = <<>>
    /\ ret = NoReturn
    /\ run = 1
    /\ prev = NoPrev
    /\ stem = "doc"
    /\ readable \in BOOLEAN
    /\ batch = NoBatch
    /\ loop_start = 0

\* lines 344-354, else branch: the suffix is none of .pdf, .txt, .docx
RejectFileType ==
    /\ pc = "start"
    /\ suffix \notin SupportedSuffixes
    /\ pc' = "done"
    /\ ret' = ConvertRaised("ValueError")
    /\ UNCHANGED <<pureVars, inputVars, batchVars, loopVars, suffix, enable_chunking, enable_embedding,
                   api_key, postgres_url, chunks, i, fs, embeddings_data, handed,
                   save_result, db_table, stdout, events, run, prev>>

\* lines 347-352 when convert_txt_to_markdown raises at line 176 or 177, or
\* convert_docx_to_markdown at line 188: the file cannot be opened or decoded,
\* and nothing has been written
ExtractionError ==
    /\ pc = "start"
    /\ suffix \in {".txt", ".docx"}
    /\ ~readable
    /\ pc' = "done"
    /\ ret' = ConvertRaised("Exception")
    /\ UNCHANGED <<pureVars, inputVars, batchVars, loopVars, suffix, enable_chunking,
                   enable_embedding, api_key, postgres_url, chunks, i, fs,
                   embeddings_data, handed, save_result, db_table, stdout, events,
                   run, prev>>

\* lines 347-352 with convert_txt_to_markdown or convert_docx_to_markdown, and
\* the return of line 381 when chunking is off
ConvertToMarkdown ==
    /\ pc = "start"
    /\ suffix \in {".txt", ".docx"}
    /\ readable
    /\ fs' = WriteFile(fs, OutputFile, MarkdownOf(suffix, text))
    /\ events' = Append(events, Event("convert", 0, TRUE))
    /\ IF enable_chunking
       THEN pc' = "chunk" /\ ret' = ret
       ELSE /\ pc' = "done"
            /\ ret' = ConvertReturned(ResultText(0 - 1, "", "", FALSE), "None")
    /\ UNCHANGED <<pureVars, inputVars, batchVars, loopVars, suffix, enable_chunking, enable_embedding,
                   api_key, postgres_url, chunks, i, embeddings_data, handed,
                   save_result, db_table, stdout, run, prev>>

\* lines 360-367, and lines 280-288 of save_chunks when chunk_text returned
ChunkContent ==
    /\ pc = "chunk"
    /\ LET r == ChunkText(RemoveWrapper(fs[OutputFile]), strategy, chunk_size, overlap)
       IN  IF r.status = "raised"
           THEN /\ pc' = "done"
                /\ ret' = ConvertRaised(r.exc)
                /\ events' = Append(events, Event("chunk", 0, FALSE))
                /\ UNCHANGED <<chunks, i, fs>>
           ELSE /\ chunks' = r.chunks
                /\ events' = Append(events, Event("chunk", 0, TRUE))
                /\ fs' = WriteFile(fs, ChunksFolder, <<>>)
                /\ i' = 1
                /\ pc' = LoopContinue(TRUE, 0, Len(r.chunks))
                /\ ret' = ret
    /\ UNCHANGED <<pureVars, inputVars, batchVars, loopVars, suffix, enable_chunking, enable_embedding,
                   api_key, postgres_url, embeddings_data, handed, save_result,
                   db_table, stdout, run, prev>>

\* lines 290-301: the chunk file of chunk i; line 304 decides on the embedding
WriteChunkFile ==
    /\ pc = "write"
    /\ fs' = WriteFile(fs, ChunkFile(i),
                       [heading |-> <<i, Len(chunks)>>, body |-> chunks[i]])
    /\ events' = Append(events, Event("write", i, TRUE))
    /\ IF enable_embedding /\ api_key
       THEN pc' = "embed" /\ i' = i
       ELSE pc' = LoopContinue(TRUE, i, Len(chunks)) /\ i' = i + 1
    /\ UNCHANGED <<pureVars, inputVars, batchVars, loopVars, suffix, enable_chunking, enable_embedding,
                   api_key, postgres_url, chunks, embeddings_data, handed,
                   save_result, db_table, stdout, ret, run, prev>>

\* lines 305-314 with generate_embedding (lines 204-216): the provider
\* answers, or any exception is caught and None returned
GenerateEmbedding ==
    /\ pc = "embed"
    /\ \E ok \in BOOLEAN :
          LET embedding == IF ok THEN Vector(ProviderVector(chunks[i])) ELSE None
          IN  /\ events' = Append(events, Event("embed", i, ok))
              /\ stdout' = IF ok THEN stdout ELSE Append(stdout, "WARN embedding")
              /\ embeddings_data' =
                    IF Truthy(embedding)
                    THEN Append(embeddings_data,
                                [chunk_id |-> i,
                                 chunk_file |-> ChunkFile(i),
                                 text |-> Preview(chunks[i]),
                                 embedding |-> embedding,
                                 embedding_dim |-> Len(embedding.vec)])
                    ELSE embeddings_data
              /\ pc' = LoopContinue(ok, i, Len(chunks))
    /\ i' = i + 1
    /\ UNCHANGED <<pureVars, inputVars, batchVars, loopVars, suffix, enable_chunking, enable_embedding,
                   api_key, postgres_url, chunks, fs, handed, save_result,
                   db_table, ret, run, prev>>

\* lines 317-321: embeddings.json, written only when some embedding exists
SaveEmbeddingsJson ==
    /\ pc = "after_loop"
    /\ embeddings_data # <<>>
    /\ fs' = WriteFile(fs, EmbeddingsFile, embeddings_data)
    /\ events' = Append(events, Event("json", 0, TRUE))
    /\ stdout' = Append(stdout, "EMBEDDING saved")
    /\ pc' = IF postgres_url THEN "database" ELSE "finish"
    /\ UNCHANGED <<pureVars, inputVars, batchVars, loopVars, suffix, enable_chunking, enable_embedding,
                   api_key, postgres_url, chunks, i, embeddings_data, handed,
                   save_result, db_table, ret, run, prev>>

\* line 317 with no embedding: neither the index nor the database is touched
SkipEmbeddingsJson ==
    /\ pc = "after_loop"
    /\ embeddings_data = <<>>
    /\ pc' = "finish"
    /\ UNCHANGED <<pureVars, inputVars, batchVars, loopVars, suffix, enable_chunking, enable_embedding,
                   api_key, postgres_url, chunks, i, fs, embeddings_data, handed,
                   save_result, db_table, stdout, events, ret, run, prev>>

\* lines 324-337 with save_to_database (lines 246-276): the rows are
\* committed together, or the connection or an insert fails and none is
SaveToDatabase ==
    /\ pc = "database"
    /\ LET rows == DbChunksData(embeddings_data, chunks, strategy, run)
       IN  /\ handed' = Append(handed, rows)
           /\ events' = Append(events, Event("database", 0, TRUE))
           /\ \E outcome \in {"committed", "connect failed", "insert failed"} :
                 IF outcome = "committed"
                 THEN /\ db_table' = db_table \o rows
                      /\ stdout' = Append(stdout, "DATABASE saved")
                      /\ save_result' = "True"
                 ELSE /\ db_table' = db_table
                      /\ stdout' = Append(stdout, "WARN database")
                      /\ save_result' = "False"
    /\ pc' = "finish"
    /\ UNCHANGED <<pureVars, inputVars, batchVars, loopVars, suffix, enable_chunking, enable_embedding,
                   api_key, postgres_url, chunks, i, fs, embeddings_data, ret,
                   run, prev>>

\* lines 374-381: the markdown file is removed and the result returned; the
\* value save_to_database returned was dropped at line 337
FinishConvert ==
    /\ pc = "finish"
    /\ fs' = RemoveFile(fs, OutputFile)
    /\ events' = Append(events, Event("remove", 0, TRUE))
    /\ ret' = ConvertReturned(
                  ResultText(Len(chunks), StrategyName(strategy), stem, enable_embedding),
                  stem)
    /\ pc' = "done"
    /\ UNCHANGED <<pureVars, inputVars, batchVars, loopVars, suffix, enable_chunking, enable_embedding,
                   api_key, postgres_url, chunks, i, embeddings_data, handed,
                   save_result, db_table, stdout, run, prev>>

\* the caller runs convert_file again on the same document with the same
\* settings: the files and the table stay, the locals start afresh
RunAgain ==
    /\ pc = "done"
    /\ run < MaxRuns
    /\ pc' = "start"
    /\ run' = run + 1
    /\ prev' = [save_result |-> save_result, ret |-> ret]
    /\ chunks' = <<>>
    /\ i' = 0
    /\ embeddings_data' = <<>>
    /\ handed' = <<>>
    /\ save_result' = "none"
    /\ stdout' = <<>>
    /\ events' = <<>>
    /\ ret' = NoReturn
    /\ UNCHANGED <<pureVars, inputVars, batchVars, loopVars, suffix, enable_chunking, enable_embedding,
                   api_key, postgres_url, fs, db_table>>

PipeNext ==
    \/ RejectFileType
    \/ ExtractionError
    \/ ConvertToMarkdown
    \/ ChunkContent
    \/ WriteChunkFile
    \/ GenerateEmbedding
    \/ SaveEmbeddingsJson
    \/ SkipEmbeddingsJson
    \/ SaveToDatabase
    \/ FinishConvert
    \/ RunAgain

PipeSpec == PipeInit /\ [][PipeNext]_vars

----------------------------------------------------------------------------
(* Properties of the pipeline *)

\* convert_file returned normally from a run with chunking
RunCompleted == pc = "done" /\ ret.status = "returned" /\ enable_chunking

EmbedEvents == SelectSeq(events, LAMBDA e : e.op = "embed")
WriteEvents == SelectSeq(events, LAMBDA e : e.op = "write")
LoopEvents == SelectSeq(events, LAMBDA e : e.op \in {"write", "embed"})

\* every row handed to save_to_database during the run, in order
RECURSIVE Concat(_)
Concat(xss) == IF xss = <<>> THEN <<>> ELSE Head(xss) \o Concat(Tail(xss))
HandedRows == Concat(handed)

EmbeddingFailedFor(k) == \E j \in 1..Len(EmbedEvents) :
                            EmbedEvents[j].i = k /\ ~EmbedEvents[j].ok
EmbeddingSucceededFor(k) == \E j \in 1..Len(EmbedEvents) :
                               EmbedEvents[j].i = k /\ EmbedEvents[j].ok

\* C5: with embedding and a store enabled, when the embedding call fails for
\* some chunks only, one record per chunk is handed to persistence: the failed
\* chunks with an absent vector, the others with their vector.
C5_EmbeddingDegradation ==
    (/\ RunCompleted
     /\ enable_embedding /\ api_key /\ postgres_url
     /\ \E k \in 1..Len(chunks) : EmbeddingFailedFor(k)
     /\ \E k \in 1..Len(chunks) : EmbeddingSucceededFor(k))
        => /\ Len(HandedRows) = Len(chunks)
           /\ \A k \in 1..Len(chunks) :
                 /\ HandedRows[k].chunk_text = chunks[k]
                 /\ HandedRows[k].embedding.present = EmbeddingSucceededFor(k)

\* C8: in a run with a store configured every chunk is handed to persistence
\* exactly once, with an absent vector when the embedding step was disabled or
\* skipped; without a store nothing is handed over.
C8_EveryChunkPersistedOnce ==
    RunCompleted
        => IF postgres_url
           THEN /\ Len(HandedRows) = Len(chunks)
                /\ \A k \in 1..Len(chunks) :
                      /\ HandedRows[k].chunk_text = chunks[k]
                      /\ ~(enable_embedding /\ api_key)
                            => ~HandedRows[k].embedding.present
           ELSE HandedRows = <<>>

\* C9: the outcome convert_file returns after a failed save_to_database
\* differs from the outcome it returns after a successful one, for the same
\* document and settings.
C9_PersistenceFailureSurfaced ==
    (/\ pc = "done"
     /\ prev.save_result \in {"True", "False"}
     /\ save_result \in {"True", "False"}
     /\ prev.save_result # save_result)
        => prev.ret # ret

\* the loop of save_chunks handled the chunks 1..N in order, each with its
\* file written and then its one embedding call
OneCallPerChunkInOrder ==
    /\ Len(EmbedEvents) = Len(chunks)
    /\ Len(WriteEvents) = Len(chunks)
    /\ \A j \in 1..Len(LoopEvents) :
          /\ LoopEvents[j].i = (j + 1) \div 2
          /\ LoopEvents[j].op = IF j % 2 = 1 THEN "write" ELSE "embed"
    /\ \A k \in 1..Len(chunks) :
          /\ ChunkFile(k) \in DOMAIN fs
          /\ fs[ChunkFile(k)].body = chunks[k]

\* C10 as stated: with embedding enabled, one embedding call per chunk, in
\* chunk order, whatever calls fail.
C10_Original ==
    (RunCompleted /\ enable_embedding) => OneCallPerChunkInOrder

\* C10, amended: with embedding enabled and an API key passed, save_chunks
\* issues exactly one embedding call per chunk, in chunk order, and a failed
\* call does not end the run: every later chunk still gets its file and its
\* own call.
C10_OneEmbeddingCallPerChunk ==
    /\ (RunCompleted /\ enable_embedding /\ api_key) => OneCallPerChunkInOrder
    /\ (pc = "done" /\ EmbedEvents # <<>>) => ret.status = "returned"

C10_Witness ==
    /\ RunCompleted
    /\ enable_embedding /\ api_key
    /\ Len(chunks) = 3
    /\ Len(EmbedEvents) = 3
    /\ ~EmbedEvents[1].ok
    /\ EmbedEvents[3].ok

\* C16: the ordinals of a run are dense from 1 and follow the document: the
\* i-th chunk is written as chunk_i with the heading 'Chunk i/N', and the
\* ordinals of the embeddings index, and the records handed to persistence,
\* are in ascending ordinal order.
C16_OrdinalsDenseAscending ==
    LET N == Len(chunks)
        written == WriteEvents
    IN  /\ \A k \in 1..Len(written) :
              /\ written[k].i = k
              /\ k <= N
              /\ ChunkFile(k) \in DOMAIN fs
              /\ fs[ChunkFile(k)] = [heading |-> <<k, N>>, body |-> chunks[k]]
        /\ RunCompleted => Len(written) = N
        /\ \A j \in 1..Len(embeddings_data) :
              /\ embeddings_data[j].chunk_id \in 1..Len(written)
              /\ embeddings_data[j].chunk_file = ChunkFile(embeddings_data[j].chunk_id)
              /\ j > 1 => embeddings_data[j - 1].chunk_id < embeddings_data[j].chunk_id
        /\ HandedRows # <<>>
              => /\ Len(HandedRows) = Len(embeddings_data)
                 /\ \A j \in 1..Len(HandedRows) :
                       HandedRows[j].chunk_text = chunks[embeddings_data[j].chunk_id]

\* a run of three chunks whose second embedding failed: the index and the
\* records hold the ordinals 1 and 3
C16_Witness ==
    /\ RunCompleted
    /\ Len(chunks) = 3
    /\ chunks[1] # chunks[3]
    /\ Len(embeddings_data) = 2
    /\ embeddings_data[2].chunk_id = 3
    /\ Len(HandedRows) = 2

----------------------------------------------------------------------------
(* A batch: the loop of process_directory, which the batch tab of the app  *)
(* repeats. It runs convert_file on each file in turn, step by step as      *)
(* above, and keeps a report and a count.                                   *)

File(st, sx, t, r) == [stem |-> st, suffix |-> sx, text |-> t, readable |-> r]
FileName(f) == <<f.stem, f.suffix>>

\* two documents, a third that shares its base name with the first, one that
\* cannot be read, and one of an unsupported type
FileUniverse ==
    {File("a", ".txt", <<"a", "b">>, TRUE),
     File("b", ".txt", <<"b">>, TRUE),
     File("a", ".docx", <<"b", "\n", "\n">>, TRUE),
     File("c", ".txt", <<>>, FALSE),
     File("c", ".csv", <<"a">>, TRUE)}

\* the listings of a directory: no two files share a name
Directories ==
    {d \in SeqsUpTo(FileUniverse, MaxFiles) :
        \A j, k \in DOMAIN d : j # k => FileName(d[j]) # FileName(d[k])}

\* input_path.glob("*" + sx)
Glob(directory, sx) == SelectSeq(directory, LAMBDA f : f.suffix = sx)

\* lines 541-545: pdf_files + txt_files + docx_files
AllFiles(directory) ==
    Glob(directory, ".pdf") \o Glob(directory, ".txt") \o Glob(directory, ".docx")

\* where the loop goes after the body for one file, which returned (ok) or
\* raised into the except clause
AfterFileAbort(ok) == IF ok THEN "next_file" ELSE "batch_done"
AfterFile(ok) == "next_file"

BatchInit ==
    /\ pc = "batch_ready"
    /\ called = "none"
    /\ result = NoResult
    /\ text = <<>>
    /\ strategy \in {"fixed", "paragraph"}
    /\ \E cfg \in {<<1, 0>>, <<1, 1>>} :
          /\ chunk_size = cfg[1]
          /\ overlap = cfg[2]
    /\ suffix = ".txt"
    /\ enable_chunking \in BOOLEAN
    /\ enable_embedding \in (IF enable_chunking THEN BOOLEAN ELSE {FALSE})
    /\ api_key = enable_embedding
    /\ postgres_url \in BOOLEAN
    /\ chunks = <<>>
    /\ i = 0
    /\ fs = NoFiles
    /\ embeddings_data = <<>>
    /\ handed = <<>>
    /\ save_result = "none"
    /\ db_table = <<>>
    /\ stdout = <<>>
    /\ events = <<>>
    /\ ret = NoReturn
    /\ run = 0
    /\ prev = NoPrev
    /\ stem = "doc"
    /\ readable = TRUE
    /\ \E d \in Directories : batch = [NoBatch EXCEPT !.directory = d]
    /\ loop_start = 0

\* lines 540-551: the supported files are collected; with none of them the
\* function returns before the loop
FindFiles ==
    /\ pc = "batch_ready"
    /\ batch' = [batch EXCEPT !.all_files = AllFiles(batch.directory)]
    /\ pc' = IF AllFiles(batch.directory) = <<>> THEN "batch_done" ELSE "next_file"
    /\ UNCHANGED <<pureVars, inputVars, pipeVars, loopVars, stem, readable>>

\* lines 564-570: the loop takes the next file and calls convert_file on it
NextFile ==
    /\ pc = "next_file"
    /\ batch.idx < Len(batch.all_files)
    /\ LET f == batch.all_files[batch.idx + 1]
       IN  /\ text' = f.text
           /\ suffix' = f.suffix
           /\ stem' = f.stem
           /\ readable' = f.readable
    /\ batch' = [batch EXCEPT !.idx = @ + 1]
    /\ pc' = "start"
    /\ run' = run + 1
    /\ chunks' = <<>>
    /\ i' = 0
    /\ embeddings_data' = <<>>
    /\ handed' = <<>>
    /\ save_result' = "none"
    /\ stdout' = <<>>
    /\ events' = <<>>
    /\ ret' = NoReturn
    /\ UNCHANGED <<pureVars, loopVars, strategy, chunk_size, overlap, enable_chunking,
                   enable_embedding, api_key, postgres_url, fs, db_table, prev>>

\* lines 571-580: convert_file returned, the file is reported as converted and
\* counted; or it raised, and the except clause reports the failure
RecordOutcome ==
    /\ pc = "done"
    /\ LET ok == ret.status = "returned"
           f == batch.all_files[batch.idx]
       IN  /\ batch' = [batch EXCEPT
                  !.reports = Append(@, [filename |-> FileName(f),
                                         status |-> IF ok THEN "OK" ELSE "ERROR"]),
                  !.success_count = IF ok THEN @ + 1 ELSE @,
                  !.chunks_folders = IF ok /\ ret.chunks_folder # "None"
                                     THEN Append(@, ret.chunks_folder) ELSE @]
           /\ pc' = AfterFile(ok)
    /\ UNCHANGED <<pureVars, inputVars, pipeVars, loopVars, stem, readable>>

\* lines 582-588: the summary after the last file
Summary ==
    /\ pc = "next_file"
    /\ batch.idx = Len(batch.all_files)
    /\ batch' = [batch EXCEPT !.summary = <<batch.success_count, Len(batch.all_files)>>]
    /\ pc' = "batch_done"
    /\ UNCHANGED <<pureVars, inputVars, pipeVars, loopVars, stem, readable>>

\* the else branch of convert_file is out of reach here: all_files holds
\* supported suffixes only
BatchNext ==
    \/ FindFiles
    \/ NextFile
    \/ ExtractionError
    \/ ConvertToMarkdown
    \/ ChunkContent
    \/ WriteChunkFile
    \/ GenerateEmbedding
    \/ SaveEmbeddingsJson
    \/ SkipEmbeddingsJson
    \/ SaveToDatabase
    \/ FinishConvert
    \/ RecordOutcome
    \/ Summary

BatchSpec == BatchInit /\ [][BatchNext]_vars

----------------------------------------------------------------------------
(* Properties of a batch *)

\* the document fails: it cannot be read, its type is unsupported, or the
\* chunk configuration of the batch is invalid
DocumentFails(f) ==
    \/ ~f.readable
    \/ f.suffix \notin {".pdf", ".txt", ".docx"}
    \/ /\ enable_chunking
       /\ \/ strategy \notin {"fixed", "sentence", "paragraph"}
          \/ strategy = "fixed" /\ chunk_size <= overlap

\* the output of a converted document is on disk
OutputOnDisk(f) ==
    IF enable_chunking THEN <<f.stem, "", 0>> \in DOMAIN fs
    ELSE <<f.stem, ".md", 0>> \in DOMAIN fs

\* C17: in a batch a failing document aborts only itself: every document of
\* the batch is processed and reported, in order, as failed exactly when it
\* failed, and the success count is the number of documents that did not
\* fail.
C17_BatchIsolatesFailures ==
    (pc = "batch_done" /\ batch.all_files # <<>>)
        => LET files == batch.all_files
           IN  /\ Len(batch.reports) = Len(files)
               /\ \A j \in 1..Len(files) :
                     /\ batch.reports[j].filename = FileName(files[j])
                     /\ batch.reports[j].status = "ERROR" <=> DocumentFails(files[j])
                     /\ ~DocumentFails(files[j]) => OutputOnDisk(files[j])
               /\ batch.success_count
                     = Cardinality({j \in 1..Len(files) : ~DocumentFails(files[j])})
               /\ batch.summary = <<batch.success_count, Len(files)>>

\* three files, the one in the middle unreadable: the third is still
\* converted
C17_Witness ==
    /\ pc = "batch_done"
    /\ Len(batch.all_files) = 3
    /\ ~batch.all_files[2].readable
    /\ batch.reports[2].status = "ERROR"
    /\ batch.reports[3].status = "OK"
    /\ batch.success_count = 2

\* the markdown without the wrapper the conversion put around it: the opening
\* tag at its start and the closing tag at its end, and nothing else
WithoutWrapper(content) ==
    LET n == Len(content)
        opened == SubSeq(content, 1, Len(OpenTag)) = OpenTag
        closed == SubSeq(content, n - Len(CloseTag) + 1, n) = CloseTag
        from == IF opened THEN Len(OpenTag) + 1 ELSE 1
        to == IF closed THEN n - Len(CloseTag) ELSE n
    IN  Strip(SubSeq(content, from, to))

\* chunk_text returned in this run
ChunkingDone == \E k \in 1..Len(events) : events[k].op = "chunk" /\ events[k].ok

\* C20: convert_file chunks the converted text less its wrapper only: a
\* '<div dir="rtl">' or '</div>' of the document's own content is still in
\* the text that is chunked.
C20_OnlyWrapperStripped ==
    ChunkingDone
        => chunks = ChunkText(WithoutWrapper(FormatTextToMarkdown(text)),
                              strategy, chunk_size, overlap).chunks

\* the chunk files that the folder of the document holds
ChunkFilesOnDisk == {n \in DOMAIN fs : n[1] = stem /\ n[2] = "chunk.md"}

\* C21: after a successful run with chunking the folder named after the
\* document holds the artifacts of this run and no other: the files chunk_1
\* .. chunk_N of the N chunks just produced, each headed 'Chunk i/N', an
\* embeddings index only if this run produced embeddings, and no intermediate
\* markdown file; nothing of an earlier run remains.
C21_FolderHoldsLatestRunOnly ==
    RunCompleted
        => /\ ChunkFilesOnDisk = {ChunkFile(k) : k \in 1..Len(chunks)}
           /\ \A k \in 1..Len(chunks) :
                 fs[ChunkFile(k)] = [heading |-> <<k, Len(chunks)>>, body |-> chunks[k]]
           /\ EmbeddingsFile \in DOMAIN fs <=> embeddings_data # <<>>
           /\ EmbeddingsFile \in DOMAIN fs => fs[EmbeddingsFile] = embeddings_data
           /\ OutputFile \notin DOMAIN fs

\* the positions of the events of kind op in this run
EventsAt(op) == {j \in 1..Len(events) : events[j].op = op}

\* C22: in one run the events are ordered: chunking has returned before the
\* first chunk file is written and before any embedding call; the persistence
\* call comes after the embedding calls of all chunks; and when chunking
\* fails, no chunk file, no embedding call and no persistence call follows.
C22_EventOrder ==
    /\ \A j \in EventsAt("write") \cup EventsAt("embed") \cup EventsAt("database") :
          \E k \in EventsAt("chunk") : k < j /\ events[k].ok
    /\ \A j \in EventsAt("database") :
          /\ \A e \in EventsAt("embed") : e < j
          /\ {events[e].i : e \in EventsAt("embed")} = 1..Len(chunks)
    /\ (\E k \in EventsAt("chunk") : ~events[k].ok)
          => /\ EventsAt("write") \cup EventsAt("embed") \cup EventsAt("database") = {}
             /\ pc = "done"
             /\ ret.status = "raised"

\* a run of three chunks that reached the persistence call
C22_Witness ==
    /\ pc = "done"
    /\ Len(chunks) = 3
    /\ EventsAt("database") # {}
    /\ Cardinality(EventsAt("embed")) = 3

----------------------------------------------------------------------------
(* is_hebrew and reverse_hebrew_text. Here a character is its code point,  *)
(* so that the range test of is_hebrew is the comparison the code makes.   *)

\* space, newline, 'a', and the code points at and around the two ends of
\* the block U+0590..U+05FF
CodePoints == {32, 10, 97, 1423, 1424, 1535, 1536}
CodeTexts == SeqsUpTo(CodePoints, MaxCodeLen)

\* '\u0590' <= char <= '\u05FF' of line 21, with the ends left out
IsHebrewExclusive(c) == 1424 < c /\ c < 1535
IsHebrew(c) == 1424 <= c /\ c <= 1535

\* what \s matches, and what str.strip removes, among the code points
IsSpaceCode(c) == c \in {32, 10, 9, 13}

\* end (0-based, exclusive) of the run of one kind that starts at 0-based `at`
RECURSIVE TokenEnd(_, _, _)
TokenEnd(s, at, space) ==
    IF at < Len(s) /\ IsSpaceCode(s[at + 1]) = space THEN TokenEnd(s, at + 1, space)
    ELSE at

\* re.findall(r'\S+|\s+', s) from 0-based `at` on
RECURSIVE FindTokens(_, _)
FindTokens(s, at) ==
    IF at >= Len(s) THEN <<>>
    ELSE LET e == TokenEnd(s, at, IsSpaceCode(s[at + 1]))
         IN  <<SubSeq(s, at + 1, e)>> \o FindTokens(s, e)

\* token[::-1]
Reversed(s) == [k \in 1..Len(s) |-> s[Len(s) - k + 1]]

\* the body of the loop of lines 28-35 for one token
FixToken(token) ==
    IF \E k \in 1..Len(token) : ~IsSpaceCode(token[k])
    THEN IF \E k \in 1..Len(token) : IsHebrew(token[k])
         THEN Reversed(token)
         ELSE token
    ELSE token

ReverseHebrewText(s) ==
    LET tokens == FindTokens(s, 0)
    IN  Concat([k \in 1..Len(tokens) |-> FixToken(tokens[k])])

HebrewInit ==
    /\ pc = "ready"
    /\ called = "none"
    /\ result = NoResult
    /\ text \in CodeTexts
    /\ strategy = "fixed"
    /\ chunk_size = DefaultChunkSize
    /\ overlap = DefaultOverlap
    /\ PipeIdle

\* a caller passes the text to reverse_hebrew_text
CallReverseHebrewText ==
    /\ pc = "ready"
    /\ pc' = "returned"
    /\ called' = "reverse_hebrew_text"
    /\ result' = Returned(ReverseHebrewText(text))
    /\ UNCHANGED <<inputVars, pipeVars, batchVars, loopVars>>

\* the caller passes what it got back to reverse_hebrew_text once more
CallReverseHebrewTextAgain ==
    /\ pc = "returned"
    /\ called = "reverse_hebrew_text"
    /\ pc' = "returned_twice"
    /\ result' = Returned(ReverseHebrewText(result.chunks))
    /\ UNCHANGED <<called, inputVars, pipeVars, batchVars, loopVars>>

HebrewNext ==
    \/ CallReverseHebrewText
    \/ CallReverseHebrewTextAgain

HebrewSpec == HebrewInit /\ [][HebrewNext]_vars

----------------------------------------------------------------------------
(* Properties of reverse_hebrew_text *)

\* the token of s around position p: the first and the last position of the
\* run of non-whitespace that holds p
TokenFirst(s, p) ==
    CHOOSE a \in 1..p :
        /\ \A r \in a..p : ~IsSpaceCode(s[r])
        /\ a = 1 \/ IsSpaceCode(s[a - 1])
TokenLast(s, p) ==
    CHOOSE b \in p..Len(s) :
        /\ \A r \in p..b : ~IsSpaceCode(s[r])
        /\ b = Len(s) \/ IsSpaceCode(s[b + 1])

\* the character that a token-wise reversal puts at position p of s
ExpectedAt(s, p) ==
    IF IsSpaceCode(s[p]) THEN s[p]
    ELSE LET a == TokenFirst(s, p)
             b == TokenLast(s, p)
         IN  IF \E r \in a..b : s[r] \in 1424..1535 THEN s[a + b - p] ELSE s[p]

\* C23: reverse_hebrew_text reverses every whitespace-delimited token that
\* holds a character of U+0590..U+05FF and leaves every other token and all
\* whitespace as and where they are; the length is kept, and a second
\* application gives the original text back.
C23_TokenwiseInvolution ==
    /\ (pc = "returned" /\ called = "reverse_hebrew_text")
          => /\ result.status = "returned"
             /\ Len(result.chunks) = Len(text)
             /\ \A p \in 1..Len(text) : result.chunks[p] = ExpectedAt(text, p)
    /\ pc = "returned_twice" => result.chunks = text

\* a Hebrew token that begins with a Latin letter, a space, and a token next
\* to the block but outside it: the first is reversed, then restored
C23_Witness ==
    /\ pc = "returned_twice"
    /\ text = <<97, 1424, 32, 1536>>
    /\ ReverseHebrewText(text) = <<1424, 97, 32, 1536>>
    /\ result.chunks = text

----------------------------------------------------------------------------
(* chunk_text_fixed_size iteration by iteration: the loop of lines 58-66    *)
(* with its cursor and its list as state, one action per pass.              *)

LoopInit ==
    /\ pc = "ready"
    /\ called = "none"
    /\ result = NoResult
    /\ strategy = "fixed"
    /\ text \in LetterTexts
    /\ chunk_size \in Sizes
    /\ overlap \in Overlaps
    /\ PipeIdle

\* lines 51-56: the guard, then the empty list and the cursor at 0
EnterFixedSize ==
    /\ pc = "ready"
    /\ called' = "chunk_text_fixed_size"
    /\ IF InvalidConfig(chunk_size, overlap)
       THEN /\ pc' = "returned"
            /\ result' = Raised("ValueError", "chunk_size must be greater than overlap")
            /\ UNCHANGED <<chunks, loop_start>>
       ELSE /\ pc' = "loop"
            /\ chunks' = <<>>
            /\ loop_start' = 0
            /\ result' = result
    /\ UNCHANGED <<inputVars, batchVars, suffix, enable_chunking, enable_embedding,
                   api_key, postgres_url, i, fs, embeddings_data, handed,
                   save_result, db_table, stdout, events, ret, run, prev>>

\* lines 58-66: one pass of the loop; the break of line 64 returns the list
LoopPass ==
    /\ pc = "loop"
    /\ LoopGuard(loop_start, Len(text))
    /\ LET end == loop_start + chunk_size
           emitted == Append(chunks, PySlice(text, loop_start, end))
       IN  /\ chunks' = emitted
           /\ IF ReachedEnd(end, Len(text))
              THEN /\ pc' = "returned"
                   /\ result' = Returned(emitted)
                   /\ loop_start' = loop_start
              ELSE /\ pc' = "loop"
                   /\ result' = result
                   /\ loop_start' = NextStart(end, overlap)
    /\ UNCHANGED <<called, inputVars, batchVars, suffix, enable_chunking,
                   enable_embedding, api_key, postgres_url, i, fs, embeddings_data,
                   handed, save_result, db_table, stdout, events, ret, run, prev>>

\* line 58 false, line 68: the loop is left and the list returned
LoopExit ==
    /\ pc = "loop"
    /\ ~LoopGuard(loop_start, Len(text))
    /\ pc' = "returned"
    /\ result' = Returned(chunks)
    /\ UNCHANGED <<called, inputVars, batchVars, loopVars, suffix, enable_chunking,
                   enable_embedding, api_key, postgres_url, chunks, i, fs,
                   embeddings_data, handed, save_result, db_table, stdout, events,
                   ret, run, prev>>

LoopNext ==
    \/ EnterFixedSize
    \/ LoopPass
    \/ LoopExit

\* the interpreter keeps running the function it has entered
LoopSpec == LoopInit /\ [][LoopNext]_vars /\ WF_vars(LoopNext)

----------------------------------------------------------------------------
(* Properties of the loop *)

\* the list returned pass by pass is the one the function returns as a whole
LoopAgrees ==
    pc = "returned" => result = ChunkTextFixedSize(text, chunk_size, overlap)

\* C25: chunk_text_fixed_size terminates for every text and every pair with
\* chunk_size > overlap, a zero or negative overlap included: every pass
\* that stays in the loop moves the cursor up by chunk_size - overlap >= 1,
\* and the call returns its list.
C25_Terminates ==
    /\ [][(pc = "loop" /\ pc' = "loop")
             => /\ loop_start' = loop_start + chunk_size - overlap
                /\ loop_start' > loop_start
                /\ loop_start' < Len(text) + chunk_size - overlap]_vars
    /\ (pc = "ready" /\ chunk_size > overlap)
          ~> (pc = "returned" /\ result.status = "returned")

\* a call with a negative overlap and a non-positive chunk_size that went
\* through the loop several times and returned
C25_Witness ==
    /\ pc = "returned"
    /\ chunk_size <= 0
    /\ overlap < 0
    /\ chunk_size > overlap
    /\ Len(text) = 6
    /\ result.status = "returned"
    /\ Len(result.chunks) >= 3

\* the chunks that convert_file makes of the file f under the batch's settings
ChunksOfFile(f) ==
    ChunkText(RemoveWrapper(MarkdownOf(f.suffix, f.text)),
              strategy, chunk_size, overlap).chunks

\* the output of f holds the artifacts of f and of no other document: with
\* chunking, the folder named after its base name holds its chunk files and
\* only those; without, the markdown file named after it holds its markdown
OutputIsOwn(f) ==
    IF enable_chunking
    THEN LET own == ChunksOfFile(f)
         IN  /\ {n \in DOMAIN fs : n[1] = f.stem /\ n[2] = "chunk.md"}
                    = {<<f.stem, "chunk.md", k>> : k \in 1..Len(own)}
             /\ \A k \in 1..Len(own) :
                   fs[<<f.stem, "chunk.md", k>>]
                       = [heading |-> <<k, Len(own)>>, body |-> own[k]]
    ELSE /\ <<f.stem, ".md", 0>> \in DOMAIN fs
         /\ fs[<<f.stem, ".md", 0>>] = MarkdownOf(f.suffix, f.text)

\* C26: when a batch has finished, every document that was converted has
\* its own output with its own artifacts alone: none is overwritten by or
\* mixed with the output of another document of the batch, also when two
\* files share a base name and differ in the extension.
C26_OutputsKeptApart ==
    pc = "batch_done"
        => \A j \in 1..Len(batch.reports) :
              batch.reports[j].status = "OK" => OutputIsOwn(batch.all_files[j])

====
